---- MODULE Spec2Model ----
(***************************************************************************)
(* Model of the OSRS Wilderness death-hotspot viewer (src/src/App.jsx and  *)
(* its entry point src/unnamed/part_000).                                  *)
(*                                                                         *)
(* Two state machines share this module:                                   *)
(*   SpecGen  - the loop of generateDeathData, one iteration per step,     *)
(*              the Math.random() draws taken from small sets;             *)
(*   Spec     - the App component: mount, React re-render, window resize,  *)
(*              and the completion (onload / onerror) of every image load  *)
(*              started by drawMap.  FairSpec adds the browser's guarantee *)
(*              that a started image load fires onload or onerror.         *)
(*                                                                         *)
(* Numbers are exact rationals <<n, d>> (d > 0, lowest terms): JavaScript  *)
(* doubles are modelled without rounding error.                            *)
(***************************************************************************)
EXTENDS Integers, Sequences, FiniteSets

VARIABLES
    \* ---- generateDeathData (SpecGen) ----
    numDeaths,          \* the argument of generateDeathData
    i,                  \* the loop counter
    genDeaths,          \* the local array `deaths` being filled
    \* ---- App (Spec) ----
    phase,              \* "init" before root.render has mounted App, then "mounted"
    strict,             \* TRUE: development build, StrictMode re-runs mount effects
    img,                \* natural [width, height] of the image behind the URL
    containerWidth,     \* canvas.parentElement.offsetWidth
    deaths,             \* useState deaths: [id, pts] (id = array identity)
    mapLoaded,          \* useState mapLoaded
    canvasDimensions,   \* useState canvasDimensions
    dirty,              \* a state update is queued, a re-render is scheduled
    rendered,           \* what the closures of the last commit captured
    loads,              \* image loads in flight, in start order: captured deaths
    canvas,             \* the <canvas>: [width, height, content]
    genRuns,            \* calls of generateDeathData so far
    resizes,            \* window resize events so far
    started,            \* image loads started so far
    done,               \* image loads completed so far (onload or onerror)
    last,               \* the last completion: [outcome, deaths, width, same]
    allOk               \* every completion so far was an onload

genVars == <<numDeaths, i, genDeaths>>
appVars == <<phase, strict, img, containerWidth, deaths, mapLoaded,
             canvasDimensions, dirty, rendered, loads, canvas, genRuns,
             resizes, started, done, last, allOk>>
vars == <<numDeaths, i, genDeaths, phase, strict, img, containerWidth, deaths,
          mapLoaded, canvasDimensions, dirty, rendered, loads, canvas, genRuns,
          resizes, started, done, last, allOk>>

----------------------------------------------------------------------------
(* Exact rational arithmetic standing in for JavaScript numbers.           *)

\* Euclid's algorithm (a function, so that its arguments are values).
gcdOf[a \in Nat, b \in Nat] == IF b = 0 THEN a ELSE gcdOf[b, a % b]

Gcd(a, b) == gcdOf[a, b]

Abs(n) == IF n < 0 THEN -n ELSE n

Rat(n, d) ==
    LET s == IF d < 0 THEN -1 ELSE 1
        g == Gcd(Abs(n), Abs(d))
    IN  <<(s * n) \div g, (s * d) \div g>>

Num(n) == <<n, 1>>

RAdd(a, b) == Rat(a[1] * b[2] + b[1] * a[2], a[2] * b[2])
RMul(a, b) == Rat(a[1] * b[1], a[2] * b[2])
RDiv(a, b) == Rat(a[1] * b[2], a[2] * b[1])
RLt(a, b) == a[1] * b[2] < b[1] * a[2]
RLe(a, b) == a[1] * b[2] <= b[1] * a[2]
RMax(a, b) == IF RLt(a, b) THEN b ELSE a
RMin(a, b) == IF RLt(b, a) THEN b ELSE a

\* Math.floor
Floor(a) == a[1] \div a[2]

\* The integer square root of n, searched upwards from k.
isqrtFrom[n \in Nat, k \in Nat] ==
    IF (k + 1) * (k + 1) > n THEN k ELSE isqrtFrom[n, k + 1]

ISqrtFrom(n, k) == isqrtFrom[n, k]

\* Math.sqrt, exact on the draws used here (squares of rationals)
RSqrt(a) == Rat(ISqrtFrom(a[1], 0), ISqrtFrom(a[2], 0))

----------------------------------------------------------------------------
(* HOTSPOTS and generateDeathData.                                         *)

HOTSPOTS == <<
    [x |-> 150, y |-> 700, radius |-> 80],
    [x |-> 650, y |-> 150, radius |-> 70],
    [x |-> 400, y |-> 400, radius |-> 90],
    [x |-> 600, y |-> 550, radius |-> 60],
    [x |-> 400, y |-> 100, radius |-> 100] >>

mapWidth == 800
mapHeight == 800

\* hotspotChance < 0.8
HotspotThreshold == Rat(8, 10)

\* Values Math.random() can return (0 <= v < 1), as rationals.
RandomDraws == { Rat(0, 1), Rat(1, 2), Rat(4, 5), Rat(9999, 10000) }

\* Draws for the hotspot index: one for every entry of HOTSPOTS.
IndexDraws == { Rat(0, 1), Rat(1, 5), Rat(1, 2), Rat(3, 5), Rat(9999, 10000) }

\* Draws for the radial fraction: squares, so that Math.sqrt is exact.
RadialDraws == { Rat(0, 1), Rat(1, 4), Rat(9801, 10000) }

\* Math.random() * 2 * Math.PI, given by the unit vector (cos, sin) of the
\* angle: two axis directions and two directions with rational cosines.
AngleDraws == {
    [cos |-> Num(1),      sin |-> Num(0)],
    [cos |-> Num(0),      sin |-> Num(-1)],
    [cos |-> Rat(3, 5),   sin |-> Rat(4, 5)],
    [cos |-> Rat(-4, 5),  sin |-> Rat(-3, 5)] }

\* One iteration's random draws, in the order the code takes them.
Draw(chance, index, angle, radial, ux, uy) ==
    [chance |-> chance, index |-> index, angle |-> angle, radial |-> radial,
     ux |-> ux, uy |-> uy]

GenDraws ==
    { Draw(c, h, a, u, Rat(0, 1), Rat(0, 1)) :
        c \in { d \in RandomDraws : RLt(d, HotspotThreshold) },
        h \in IndexDraws, a \in AngleDraws, u \in RadialDraws }
    \cup
    { Draw(c, Rat(0, 1), [cos |-> Num(1), sin |-> Num(0)], Rat(0, 1), ux, uy) :
        c \in { d \in RandomDraws : ~RLt(d, HotspotThreshold) },
        ux \in RandomDraws, uy \in RandomDraws }

\* Math.max(0, Math.min(bound, v))
Clamp(bound, v) == RMax(Num(0), RMin(Num(bound), v))

\* The body of the for loop: the point pushed for one set of draws.
GenPoint(d) ==
    LET hotspotIndex == Floor(RMul(d.index, Num(Len(HOTSPOTS))))
        chosenHotspot == HOTSPOTS[hotspotIndex + 1]
        r == RMul(Num(chosenHotspot.radius), RSqrt(d.radial))
        x == IF RLt(d.chance, HotspotThreshold)
                THEN RAdd(Num(chosenHotspot.x), RMul(r, d.angle.cos))
                ELSE RMul(d.ux, Num(mapWidth))
        y == IF RLt(d.chance, HotspotThreshold)
                THEN RAdd(Num(chosenHotspot.y), RMul(r, d.angle.sin))
                ELSE RMul(d.uy, Num(mapHeight))
    IN  [x |-> Clamp(mapWidth, x), y |-> Clamp(mapHeight, y)]

\* Faulty variant: the loop runs once too often (i <= numDeaths).
LoopCond_OffByOne(k, n) == k <= n

\* i < numDeaths
LoopCond(k, n) == k < n

\* Largest count tried by SpecGen.
MaxCount == 2

\* One iteration of the loop.
GenStep ==
    /\ LoopCond(i, numDeaths)
    /\ \E d \in GenDraws : genDeaths' = Append(genDeaths, GenPoint(d))
    /\ i' = i + 1
    /\ UNCHANGED numDeaths

\* return deaths
GenDone == ~LoopCond(i, numDeaths)

\* The generator alone: the App variables stay at rest.
AppIdle ==
    /\ phase = "init" /\ strict = FALSE /\ img = [width |-> 800, height |-> 800]
    /\ containerWidth = 400 /\ deaths = [id |-> 0, pts |-> <<>>]
    /\ mapLoaded = FALSE
    /\ canvasDimensions = [width |-> Num(0), height |-> Num(0)]
    /\ dirty = FALSE
    /\ rendered = [deaths |-> [id |-> 0, pts |-> <<>>], mapLoaded |-> FALSE]
    /\ loads = <<>>
    /\ canvas = [width |-> 300, height |-> 150, content |-> <<>>]
    /\ genRuns = 0 /\ resizes = 0 /\ started = 0 /\ done = 0
    /\ last = [outcome |-> "none", deaths |-> [id |-> 0, pts |-> <<>>],
               width |-> 0, same |-> FALSE]
    /\ allOk = TRUE

\* generateDeathData is called: const deaths = []; i = 0
GenInit ==
    /\ numDeaths \in 0..MaxCount
    /\ i = 0
    /\ genDeaths = <<>>
    /\ AppIdle

GenNext == GenStep /\ UNCHANGED appVars

----------------------------------------------------------------------------
(* The canvas: [width, height, content], content the drawing operations    *)
(* whose result is on the bitmap, oldest first.                            *)

\* A canvas element before any script sizes it (HTML default 300 x 150).
DefaultCanvasWidth == 300
DefaultCanvasHeight == 150

NewCanvas ==
    [width |-> DefaultCanvasWidth, height |-> DefaultCanvasHeight, content |-> <<>>]

\* canvas.width / canvas.height are unsigned long attributes: a fractional
\* value assigned to them is truncated.
ToUint(q) == Floor(q)

\* canvas.width = newWidth: sets the attribute and resets the bitmap.
SetWidth(cv, w) == [cv EXCEPT !.width = ToUint(w), !.content = <<>>]

\* canvas.height = newHeight: sets the attribute and resets the bitmap.
SetHeight(cv, h) == [cv EXCEPT !.height = ToUint(h), !.content = <<>>]

\* Faulty variant: clearRect that clears nothing.
ClearRect_Noop(cv, x, y, w, h) == cv

\* ctx.clearRect(x, y, w, h); every call in the program covers the canvas.
ClearRect(cv, x, y, w, h) ==
    IF x <= 0 /\ y <= 0 /\ x + w >= cv.width /\ y + h >= cv.height
        THEN [cv EXCEPT !.content = <<>>]
        ELSE cv

\* ctx.drawImage(img, 0, 0, canvas.width, canvas.height)
DrawImage(cv, image, x, y, w, h) ==
    [cv EXCEPT !.content =
        Append(@, [op |-> "image", image |-> image, x |-> x, y |-> y,
                   w |-> w, h |-> h])]

\* scaleX = newWidth / 800
ScaleX(newWidth, newHeight) == RDiv(newWidth, Num(800))

\* Faulty variant: the vertical scale taken from the width.
ScaleY_FromWidth(newWidth, newHeight) == RDiv(newWidth, Num(800))

\* scaleY = newHeight / 800
ScaleY(newWidth, newHeight) == RDiv(newHeight, Num(800))

\* ctx.arc(death.x * scaleX, death.y * scaleY, 2, 0, 2 pi); ctx.fill()
DeathArc(death, scaleX, scaleY) ==
    [op |-> "death", x |-> RMul(death.x, scaleX), y |-> RMul(death.y, scaleY)]

\* ctx.arc(hotspot.x * scaleX, hotspot.y * scaleY, hotspot.radius * scaleX, ...)
HotspotArc(hotspot, scaleX, scaleY) ==
    [op |-> "hotspot", x |-> RMul(Num(hotspot.x), scaleX),
     y |-> RMul(Num(hotspot.y), scaleY), r |-> RMul(Num(hotspot.radius), scaleX)]

\* deaths.forEach(...) then HOTSPOTS.forEach(...)
DrawOverlay(cv, pts, scaleX, scaleY) ==
    [cv EXCEPT !.content =
        @ \o [k \in 1..Len(pts) |-> DeathArc(pts[k], scaleX, scaleY)]
          \o [k \in 1..Len(HOTSPOTS) |-> HotspotArc(HOTSPOTS[k], scaleX, scaleY)]]

FallbackMessage == "Failed to load map image. Please check URL."

\* ctx.fillText(text, x, y)
FillText(cv, text, x, y) ==
    [cv EXCEPT !.content = Append(@, [op |-> "text", text |-> text, x |-> x, y |-> y])]

\* newWidth = containerWidth
NewWidth(image, cw) == Num(cw)

\* newHeight = containerWidth / (img.width / img.height)
NewHeight(image, cw) == RDiv(Num(cw), RDiv(Num(image.width), Num(image.height)))

\* Faulty variant: onload paints over the canvas as it is, without sizing or clearing it.
OnLoadCanvas_Append(cv, image, cw, pts) ==
    DrawOverlay(DrawImage(cv, image, 0, 0, cv.width, cv.height), pts,
                ScaleX(NewWidth(image, cw), NewHeight(image, cw)),
                ScaleY(NewWidth(image, cw), NewHeight(image, cw)))

\* What img.onload does to the canvas.
OnLoadCanvas(cv, image, cw, pts) ==
    LET newWidth == NewWidth(image, cw)
        newHeight == NewHeight(image, cw)
        sized == SetHeight(SetWidth(cv, newWidth), newHeight)
        cleared == ClearRect(sized, 0, 0, sized.width, sized.height)
        drawn == DrawImage(cleared, image, 0, 0, cleared.width, cleared.height)
    IN  DrawOverlay(drawn, pts, ScaleX(newWidth, newHeight), ScaleY(newWidth, newHeight))

\* What img.onerror does to the canvas.
OnErrorCanvas(cv) ==
    FillText(ClearRect(cv, 0, 0, cv.width, cv.height), FallbackMessage, 10, 50)

----------------------------------------------------------------------------
(* The App component.                                                      *)

\* Number of points of a generated collection (5000 in the program).
NumDeaths == 1

\* Window resize events in one run.
MaxResizes == 2

\* Container widths the window is resized between.
Widths == {400, 1001}

\* Natural sizes the image behind WILDERNESS_MAP_URL may have.
ImageSizes == { [width |-> 800, height |-> 800], [width |-> 800, height |-> 600] }

\* The draws of the generator runs made by App.
AppDraws == {
    Draw(Rat(4, 5), Rat(0, 1), [cos |-> Num(1), sin |-> Num(0)], Rat(0, 1),
         Rat(0, 1), Rat(0, 1)),
    Draw(Rat(1, 2), Rat(1, 2), [cos |-> Rat(3, 5), sin |-> Rat(4, 5)], Rat(1, 4),
         Rat(0, 1), Rat(0, 1)) }

\* generateDeathData(n): every array the loop can return for these draws.
generateDeathData(n, draws) ==
    { [k \in 1..n |-> GenPoint(f[k])] : f \in [1..n -> draws] }

\* useState([]): the initial array has identity 0, the array of the k-th
\* generator run identity k.
NoDeaths == [id |-> 0, pts |-> <<>>]

\* The dev build's StrictMode runs every mount effect, its cleanup, and the
\* effect again; the production build runs it once.
MountEffectRuns(isStrict) == IF isStrict THEN 2 ELSE 1

Init ==
    /\ numDeaths = 0 /\ i = 0 /\ genDeaths = <<>>
    /\ phase = "init"
    /\ strict \in BOOLEAN
    /\ img \in ImageSizes
    /\ containerWidth \in Widths
    /\ deaths = NoDeaths
    /\ mapLoaded = FALSE
    /\ canvasDimensions = [width |-> Num(0), height |-> Num(0)]
    /\ dirty = FALSE
    /\ rendered = [deaths |-> NoDeaths, mapLoaded |-> FALSE]
    /\ loads = <<>>
    /\ canvas = NewCanvas
    /\ genRuns = 0
    /\ resizes = 0
    /\ started = 0
    /\ done = 0
    /\ last = [outcome |-> "none", deaths |-> NoDeaths, width |-> 0, same |-> FALSE]
    /\ allOk = TRUE

\* Faulty variant: a new load supersedes (cancels) the loads in flight.
drawMap_CancelPrevious(inflight, d) == <<d>>

\* drawMap() of the commit whose closure captured d: a new Image is loading.
drawMap(inflight, d) == Append(inflight, d)

\* root.render(<React.StrictMode><App /></React.StrictMode>): the first
\* commit and its effects: setDeaths(generateDeathData(5000)), the resize
\* listener, drawMap().  Every effect run calls the generator and drawMap.
Mount ==
    /\ phase = "init"
    /\ phase' = "mounted"
    \* the updates of all effect runs are batched: the last setDeaths wins
    /\ \E g \in generateDeathData(NumDeaths, AppDraws) :
        /\ genRuns' = genRuns + MountEffectRuns(strict)
        /\ deaths' = [id |-> genRuns', pts |-> g]
    /\ started' = started + MountEffectRuns(strict)
    /\ loads' = IF MountEffectRuns(strict) = 2
                   THEN drawMap(drawMap(loads, rendered.deaths), rendered.deaths)
                   ELSE drawMap(loads, rendered.deaths)
    /\ dirty' = TRUE
    /\ UNCHANGED <<genVars, strict, img, containerWidth, mapLoaded, canvasDimensions,
                   rendered, canvas, resizes, done, last, allOk>>

\* useCallback(..., [deaths]): drawMap is a new function, and the effect on
\* [drawMap] runs, exactly when the deaths array is another array.
DrawMapChanged(old, new) == old.id # new.id

\* A scheduled re-render commits: the closures capture the current state,
\* the resize effect re-subscribes, the [drawMap] effect runs if it changed.
Render ==
    /\ phase = "mounted"
    /\ dirty
    /\ dirty' = FALSE
    /\ rendered' = [deaths |-> deaths, mapLoaded |-> mapLoaded]
    /\ loads' = IF DrawMapChanged(rendered.deaths, deaths)
                   THEN drawMap(loads, deaths)
                   ELSE loads
    /\ started' = IF DrawMapChanged(rendered.deaths, deaths)
                     THEN started + 1
                     ELSE started
    /\ UNCHANGED <<genVars, phase, strict, img, containerWidth, deaths, mapLoaded,
                   canvasDimensions, canvas, genRuns, resizes, done, last, allOk>>

\* Faulty variant: handleResize without its if (mapLoaded) guard.
handleResize_NoGuard(inflight, r) == Append(inflight, r.deaths)

\* handleResize of the last commit: if (mapLoaded) drawMap()
handleResize(inflight, r) ==
    IF r.mapLoaded THEN drawMap(inflight, r.deaths) ELSE inflight

\* The window is resized: the container gets another width and the
\* registered listener runs.
Resize ==
    /\ phase = "mounted"
    /\ resizes < MaxResizes
    /\ resizes' = resizes + 1
    /\ \E w \in Widths \ {containerWidth} : containerWidth' = w
    /\ loads' = handleResize(loads, rendered)
    /\ started' = IF rendered.mapLoaded THEN started + 1 ELSE started
    /\ UNCHANGED <<genVars, phase, strict, img, deaths, mapLoaded, canvasDimensions,
                   dirty, rendered, canvas, genRuns, done, last, allOk>>

RemoveAt(s, k) == [j \in 1..(Len(s) - 1) |-> IF j < k THEN s[j] ELSE s[j + 1]]

\* img.onload of the k-th load in flight.
LoadOk(k) ==
    /\ k \in 1..Len(loads)
    /\ loads' = RemoveAt(loads, k)
    /\ mapLoaded' = TRUE
    /\ canvas' = OnLoadCanvas(canvas, img, containerWidth, loads[k].pts)
    /\ canvasDimensions' = [width |-> NewWidth(img, containerWidth),
                            height |-> NewHeight(img, containerWidth)]
    /\ dirty' = TRUE
    /\ done' = done + 1
    /\ last' = [outcome |-> "ok", deaths |-> loads[k], width |-> containerWidth,
                same |-> /\ last.outcome = "ok"
                         /\ last.deaths.pts = loads[k].pts
                         /\ last.width = containerWidth]
    /\ UNCHANGED <<genVars, phase, strict, img, containerWidth, deaths, rendered,
                   genRuns, resizes, started, allOk>>

\* img.onerror of the k-th load in flight.
LoadFail(k) ==
    /\ k \in 1..Len(loads)
    /\ loads' = RemoveAt(loads, k)
    /\ canvas' = OnErrorCanvas(canvas)
    /\ done' = done + 1
    /\ last' = [outcome |-> "fail", deaths |-> loads[k], width |-> containerWidth,
                same |-> FALSE]
    /\ allOk' = FALSE
    /\ UNCHANGED <<genVars, phase, strict, img, containerWidth, deaths, mapLoaded,
                   canvasDimensions, dirty, rendered, genRuns, resizes, started>>

\* Some load in flight fires onload / onerror.
OnLoad == \E k \in 1..Len(loads) : LoadOk(k)
OnError == \E k \in 1..Len(loads) : LoadFail(k)

\* Some load in flight completes, with onerror or with onload.
Complete == OnError \/ OnLoad

Next ==
    \/ Mount
    \/ Render
    \/ Resize
    \/ OnLoad
    \/ OnError

SpecGen == GenInit /\ [][GenNext]_vars

Spec == Init /\ [][Next]_vars

\* The browser fires onload or onerror for every image load it started.
FairSpec == Spec /\ WF_vars(Complete)

----------------------------------------------------------------------------
(* Properties.                                                             *)

InMap(p) ==
    /\ RLe(Num(0), p.x) /\ RLe(p.x, Num(800))
    /\ RLe(Num(0), p.y) /\ RLe(p.y, Num(800))

\* C1: when generateDeathData(count) returns, for any count >= 0 and any
\* random draws, the array holds exactly count points and every point has
\* 0 <= x <= 800 and 0 <= y <= 800; count = 0 gives the empty array.
C1_GeneratorContract ==
    /\ Len(genDeaths) = i
    /\ \A k \in 1..Len(genDeaths) : InMap(genDeaths[k])
    /\ GenDone => /\ Len(genDeaths) = numDeaths
                  /\ (numDeaths = 0 => genDeaths = <<>>)

\* C1 witness: a finished run of two iterations that produced two different
\* points, the first with a fractional x (a hotspot draw off the centre).
C1_Witness ==
    /\ GenDone /\ numDeaths >= 2
    /\ genDeaths[1] # genDeaths[2]
    /\ genDeaths[1].x[2] # 1

\* C2: after an image load fails (onerror), mapLoaded is false, also when an
\* earlier load succeeded.
C2_FailureClearsMapLoaded == last.outcome = "fail" => ~mapLoaded

\* The step is a window resize / the mount / a commit with another deaths array.
IsResize == resizes' # resizes
IsMount == phase' # phase
IsDeathsCommit == rendered'.deaths.id # rendered.deaths.id

Painted(outcome, pts, cw, w, h) ==
    IF outcome = "ok"
        THEN OnLoadCanvas([width |-> w, height |-> h, content |-> <<>>],
                          img, cw, pts).content
        ELSE OnErrorCanvas([width |-> w, height |-> h, content |-> <<>>]).content

\* C4: no load in flight is cancelled (every load started is in flight or has
\* completed), every load in flight eventually completes, and after any
\* completion the canvas holds exactly what that completion painted, nothing
\* of what earlier completions left, in whatever order the loads complete.
C4_LastCompletionWins ==
    /\ [](started = done + Len(loads))
    /\ [](last.outcome # "none" =>
            canvas.content = Painted(last.outcome, last.deaths.pts, last.width,
                                     canvas.width, canvas.height))
    /\ (loads # <<>> ~> loads = <<>>)

\* C4 witness: two loads were in flight together and the one started first
\* (at mount, with the empty collection) completed last, after a failure or
\* a success of the later one.
C4_Witness ==
    /\ done >= 2 /\ loads = <<>>
    /\ last.deaths.id = 0 /\ rendered.deaths.id # 0
    /\ ~strict

\* C5: a successful completion that follows a successful completion with
\* the same container width and the same samples leaves the canvas (size
\* and every drawing operation) as it was.
C5_RenderIdempotent ==
    [][(done' = done + 1 /\ last'.outcome = "ok" /\ last'.same)
        => canvas' = canvas]_vars

\* C5 witness: two consecutive successes with the same inputs have happened,
\* with a sample on the canvas.
C5_Witness == last.same /\ Len(last.deaths.pts) >= 1

\* The drawing operations of one kind on the canvas.
OpsOf(kind) == SelectSeq(canvas.content, LAMBDA o : o.op = kind)

\* C6: after a successful render with target size W x H (canvasDimensions),
\* sample k is drawn at (x * W / 800, y * H / 800); (0,0) maps to (0,0),
\* (800,800) to (W,H), and every drawn centre lies in [0,W] x [0,H].
C6_ScalingCorrect ==
    last.outcome = "ok" =>
        LET W == canvasDimensions.width
            H == canvasDimensions.height
            pts == last.deaths.pts
            arcs == OpsOf("death")
            at(p) == DeathArc(p, ScaleX(W, H), ScaleY(W, H))
        IN  /\ Len(arcs) = Len(pts)
            /\ \A k \in 1..Len(pts) :
                /\ arcs[k].x = RDiv(RMul(pts[k].x, W), Num(800))
                /\ arcs[k].y = RDiv(RMul(pts[k].y, H), Num(800))
                /\ RLe(Num(0), arcs[k].x) /\ RLe(arcs[k].x, W)
                /\ RLe(Num(0), arcs[k].y) /\ RLe(arcs[k].y, H)
            /\ at([x |-> Num(0), y |-> Num(0)]).x = Num(0)
            /\ at([x |-> Num(0), y |-> Num(0)]).y = Num(0)
            /\ at([x |-> Num(800), y |-> Num(800)]).x = W
            /\ at([x |-> Num(800), y |-> Num(800)]).y = H

\* C6 witness: a successful render of a non-square image with a sample off
\* the origin on the canvas.
C6_Witness ==
    /\ last.outcome = "ok"
    /\ img.width # img.height
    /\ \E k \in 1..Len(OpsOf("death")) : OpsOf("death")[k].y # Num(0)

\* C7: the generator runs exactly once per process lifetime, also under the
\* StrictMode mount of the entry point.
C7_GeneratorRunsOnce ==
    /\ genRuns <= 1
    /\ (phase = "mounted" => genRuns = 1)

\* C8: a failed load keeps the canvas width and height and canvasDimensions,
\* clears what was drawn, and leaves only the non-empty fallback message.
C8_FailureFrame ==
    [][(done' = done + 1 /\ last'.outcome = "fail") =>
        /\ canvas'.width = canvas.width
        /\ canvas'.height = canvas.height
        /\ canvasDimensions' = canvasDimensions
        /\ Len(canvas'.content) = 1
        /\ canvas'.content[1].op = "text"
        /\ canvas'.content[1].text # ""]_vars

\* C8 witness: a load has failed after an earlier success had sized the
\* canvas and drawn on it.
C8_Witness ==
    /\ last.outcome = "fail" /\ mapLoaded
    /\ canvas.width # DefaultCanvasWidth

\* C9: whenever no load is in flight, every load succeeded and no re-render
\* is pending, the samples painted on the canvas are the current collection.
C9_SurfaceShowsCurrentSamples ==
    (phase = "mounted" /\ loads = <<>> /\ allOk /\ ~dirty /\ done >= 1) =>
        /\ Len(OpsOf("death")) = Len(deaths.pts)
        /\ \A k \in 1..Len(deaths.pts) :
            OpsOf("death")[k] =
                DeathArc(deaths.pts[k],
                         ScaleX(canvasDimensions.width, canvasDimensions.height),
                         ScaleY(canvasDimensions.width, canvasDimensions.height))

\* C10: whenever no load is in flight and the last completion succeeded,
\* the canvas is as wide as the container and its height is that width
\* divided by the image's natural width / height ratio.
C10_SurfaceFitsContainer ==
    (loads = <<>> /\ last.outcome = "ok") =>
        /\ canvas.width = containerWidth
        /\ Num(canvas.height) = NewHeight(img, containerWidth)

====
